---- MODULE Spec2Model ----
(***************************************************************************)
(* A model of wryte.py: the Wryte logging facade, its normalisation of     *)
(* context objects, the enrichment of a record, the two formatters and the *)
(* handler bookkeeping on the process-wide named loggers of `logging`.     *)
(*                                                                         *)
(* Python values are tagged records.  A str is a TLA+ string, read         *)
(* character by character with SubSeq; a dict is the sequence of its       *)
(* (key, value) items in insertion order, keys unique.                     *)
(***************************************************************************)
EXTENDS Integers, Sequences, FiniteSets, TLC

\* ------------------------------------------------------------ bounds
\* Longest sequence of context objects passed to _normalize_objects / _enrich.
MaxObjects == 2
\* Longest sequence of context objects passed to a logging call.
MaxLogObjects == 1
\* Wryte instances constructed in one process.
MaxWryters == 2
\* logging.Handler objects created in one process.
MaxHandlers == 3
\* Readings of the wall clock that differ.
MaxClock == 1

\* ------------------------------------------------------------ Python values
PyNone == [t |-> "None"]
PyInt(n) == [t |-> "int", v |-> n]
PyBool(b) == [t |-> "bool", v |-> b]
PyStr(s) == [t |-> "str", s |-> s]
PyList(xs) == [t |-> "list", items |-> xs]
PyDict(kvs) == [t |-> "dict", items |-> kvs]

IsDict(x) == x.t = "dict"
IsStr(x) == x.t = "str"

\* Python truthiness, as used by `x or y`.
Truthy(x) ==
    CASE x.t = "None" -> FALSE
      [] x.t = "bool" -> x.v
      [] x.t = "int" -> x.v # 0
      [] x.t = "str" -> x.s # ""
      [] OTHER -> x.items # <<>>

PyOr(x, y) == IF Truthy(x) THEN x ELSE y

\* Keys that hash and compare equal: True == 1 and False == 0.
KeyNorm(k) == IF k.t = "bool" THEN PyInt(IF k.v THEN 1 ELSE 0) ELSE k
Hashable(k) == k.t \notin {"list", "dict"}

\* The element of a set of one element; Only({e(x) : x \in {v}}) is e computed
\* on the value of v.
Only(S) == CHOOSE x \in S : TRUE
Range(f) == {f[i] : i \in DOMAIN f}

\* ------------------------------------------------------------ str
\* s[i-1:j] of Python (1-based here, both ends included and clamped).
Slice(s, i, j) == IF i > Len(s) \/ j < i THEN "" ELSE SubSeq(s, i, IF j > Len(s) THEN Len(s) ELSE j)
\* The character at position i, "" past the end.
Ch(s, i) == Slice(s, i, i)
Contains(s, c) == \E i \in 1..Len(s) : Ch(s, i) = c
Find(s, c) == CHOOSE i \in 1..Len(s) : Ch(s, i) = c /\ \A j \in 1..(i - 1) : Ch(s, j) # c

LowerCase == <<"a", "b", "c", "d", "e", "f", "g", "h", "i", "j", "k", "l", "m",
               "n", "o", "p", "q", "r", "s", "t", "u", "v", "w", "x", "y", "z">>
UpperCase == <<"A", "B", "C", "D", "E", "F", "G", "H", "I", "J", "K", "L", "M",
               "N", "O", "P", "Q", "R", "S", "T", "U", "V", "W", "X", "Y", "Z">>

MapChar(c, from, to) ==
    IF \E i \in DOMAIN from : from[i] = c
    THEN to[CHOOSE i \in DOMAIN from : from[i] = c]
    ELSE c

RECURSIVE MapStr(_, _, _)
MapStr(s, from, to) ==
    IF s = "" THEN ""
    ELSE MapChar(Ch(s, 1), from, to) \o MapStr(Slice(s, 2, Len(s)), from, to)

\* str.upper() and str.lower().
Upper(s) == MapStr(s, LowerCase, UpperCase)
Lower(s) == MapStr(s, UpperCase, LowerCase)

\* ------------------------------------------------------------ dict
Keys(d) == {KeyNorm(d.items[i][1]) : i \in DOMAIN d.items}
HasKey(d, k) == KeyNorm(k) \in Keys(d)
IndexOf(d, k) == CHOOSE i \in DOMAIN d.items : KeyNorm(d.items[i][1]) = KeyNorm(k)
Get(d, k) == d.items[IndexOf(d, k)][2]

\* d[k] = v: an existing key keeps its place, a new one goes last.
SetItem(d, k, v) ==
    IF HasKey(d, k)
    THEN PyDict([d.items EXCEPT ![IndexOf(d, k)] = <<d.items[IndexOf(d, k)][1], v>>])
    ELSE PyDict(Append(d.items, <<k, v>>))

\* d.pop(k) for a key that is present.
Pop(d, k) ==
    LET i == IndexOf(d, k)
    IN  PyDict(SubSeq(d.items, 1, i - 1) \o SubSeq(d.items, i + 1, Len(d.items)))

RECURSIVE SetItems(_, _)
SetItems(d, kvs) ==
    IF kvs = <<>> THEN d
    ELSE SetItems(SetItem(d, kvs[1][1], kvs[1][2]), Tail(kvs))

\* dict(k1=v1, ...) with string keys.
DictOf(kvs) == SetItems(PyDict(<<>>), [i \in DOMAIN kvs |-> <<PyStr(kvs[i][1]), kvs[i][2]>>])

\* An outcome of a call: the exception it raised ("none" if it returned) and
\* the value it returned.
Ok(v) == [exc |-> "none", val |-> v]
Raise(e) == [exc |-> e, val |-> PyNone]

\* The sequence Python iterates when `x` is used as a (key, value) pair of
\* dict.update; <<>> with ok = FALSE when x is not iterable.
AsSequence(x) ==
    CASE x.t = "str" -> [ok |-> TRUE, seq |-> [i \in 1..Len(x.s) |-> PyStr(Ch(x.s, i))]]
      [] x.t = "list" -> [ok |-> TRUE, seq |-> x.items]
      [] x.t = "dict" -> [ok |-> TRUE, seq |-> [i \in DOMAIN x.items |-> x.items[i][1]]]
      [] OTHER -> [ok |-> FALSE, seq |-> <<>>]

\* dict.update(seq) for an iterable of pairs, element by element.
RECURSIVE UpdateFromPairs(_, _)
UpdateFromPairs(d, elems) ==
    IF elems = <<>> THEN Ok(d)
    ELSE LET p == AsSequence(elems[1])
         IN  IF ~p.ok THEN Raise("TypeError")
             ELSE IF Len(p.seq) # 2 THEN Raise("ValueError")
             ELSE IF ~Hashable(p.seq[1]) THEN Raise("TypeError")
             ELSE UpdateFromPairs(SetItem(d, p.seq[1], p.seq[2]), Tail(elems))

\* dict.update(other): a mapping is merged key by key, anything else is
\* iterated as pairs, and a value that is not iterable is a TypeError.
DictUpdate(d, other) ==
    IF IsDict(other) THEN Ok(SetItems(d, other.items))
    ELSE LET s == AsSequence(other)
         IN  IF ~s.ok THEN Raise("TypeError") ELSE UpdateFromPairs(d, s.seq)

\* ------------------------------------------------------------ json.loads
\* The decoder of the json module on the part of JSON the model's strings
\* are written in: null, true, false, non-negative integers, strings without
\* escapes, arrays and objects, with blanks between the tokens.
Digits == <<"0", "1", "2", "3", "4", "5", "6", "7", "8", "9">>
IsDigit(c) == \E i \in DOMAIN Digits : Digits[i] = c
DigitVal(c) == (CHOOSE i \in DOMAIN Digits : Digits[i] = c) - 1

PFail == [ok |-> FALSE, val |-> PyNone, pos |-> 0]
POk(v, p) == [ok |-> TRUE, val |-> v, pos |-> p]

RECURSIVE SkipWs(_, _)
SkipWs(s, i) == IF i <= Len(s) /\ Ch(s, i) = " " THEN SkipWs(s, i + 1) ELSE i

\* The digits of an integer from position i on, acc the value so far.
RECURSIVE ScanDigits(_, _, _)
ScanDigits(s, i, acc) ==
    IF i <= Len(s) /\ IsDigit(Ch(s, i))
    THEN ScanDigits(s, i + 1, acc * 10 + DigitVal(Ch(s, i)))
    ELSE POk(PyInt(acc), i)

\* A number starts at i: a lone 0, or a digit 1-9 and the digits after it.
ParseInt(s, i) == IF Ch(s, i) = "0" THEN POk(PyInt(0), i + 1) ELSE ScanDigits(s, i, 0)

\* The position of the quote that closes the string opened before i; 0 if none.
RECURSIVE ClosingQuote(_, _)
ClosingQuote(s, i) ==
    IF i > Len(s) THEN 0
    ELSE IF Ch(s, i) = "\"" THEN i
    ELSE ClosingQuote(s, i + 1)

\* s[i] is the opening quote.
ParseString(s, i) ==
    LET j == ClosingQuote(s, i + 1)
    IN  IF j = 0 THEN PFail ELSE POk(PyStr(Slice(s, i + 1, j - 1)), j + 1)

RECURSIVE ParseValue(_, _)
RECURSIVE ParseElements(_, _, _)
RECURSIVE ParseMembers(_, _, _)

\* The elements of an array, a value expected at i; acc the elements so far.
ParseElements(s, i, acc) ==
    LET r == ParseValue(s, i)
        j == SkipWs(s, r.pos)
    IN  IF ~r.ok THEN PFail
        ELSE IF Ch(s, j) = "]" THEN POk(PyList(Append(acc, r.val)), j + 1)
        ELSE IF Ch(s, j) = "," THEN ParseElements(s, SkipWs(s, j + 1), Append(acc, r.val))
        ELSE PFail

\* The members of an object, a key expected at i; acc the pairs so far. The
\* dict is built from the pairs: of a repeated key the last value is kept.
ParseMembers(s, i, acc) ==
    IF Ch(s, i) # "\"" THEN PFail
    ELSE LET k == ParseString(s, i)
             c == SkipWs(s, k.pos)
             r == ParseValue(s, SkipWs(s, c + 1))
             j == SkipWs(s, r.pos)
             pairs == Append(acc, <<k.val, r.val>>)
         IN  IF ~k.ok \/ Ch(s, c) # ":" THEN PFail
             ELSE IF ~r.ok THEN PFail
             ELSE IF Ch(s, j) = "}" THEN POk(SetItems(PyDict(<<>>), pairs), j + 1)
             ELSE IF Ch(s, j) = "," THEN ParseMembers(s, SkipWs(s, j + 1), pairs)
             ELSE PFail

ParseValue(s, i) ==
    LET c == Ch(s, i)
    IN  CASE c = "\"" -> ParseString(s, i)
          [] c = "{" -> IF Ch(s, SkipWs(s, i + 1)) = "}"
                        THEN POk(PyDict(<<>>), SkipWs(s, i + 1) + 1)
                        ELSE ParseMembers(s, SkipWs(s, i + 1), <<>>)
          [] c = "[" -> IF Ch(s, SkipWs(s, i + 1)) = "]"
                        THEN POk(PyList(<<>>), SkipWs(s, i + 1) + 1)
                        ELSE ParseElements(s, SkipWs(s, i + 1), <<>>)
          [] c = "n" -> IF Slice(s, i, i + 3) = "null" THEN POk(PyNone, i + 4) ELSE PFail
          [] c = "t" -> IF Slice(s, i, i + 3) = "true" THEN POk(PyBool(TRUE), i + 4) ELSE PFail
          [] c = "f" -> IF Slice(s, i, i + 4) = "false" THEN POk(PyBool(FALSE), i + 5) ELSE PFail
          [] IsDigit(c) -> ParseInt(s, i)
          [] OTHER -> PFail

\* json.loads(s): one value, blanks around it, and nothing after; a
\* JSONDecodeError (a ValueError) otherwise.
JsonLoads(s) ==
    LET r == ParseValue(s, SkipWs(s, 1))
    IN  IF r.ok /\ SkipWs(s, r.pos) = Len(s) + 1 THEN Ok(r.val) ELSE Raise("ValueError")

\* ------------------------------------------------------------ Wryte: records
\* Wryte._split_kv
_split_kv(pair) ==
    LET i == Find(pair, "=")
    IN  PyDict(<<<<PyStr(Slice(pair, 1, i - 1)), PyStr(Slice(pair, i + 1, Len(pair)))>>>>)

\* One pass of the loop of Wryte._normalize_objects: what is appended for obj.
NormalizeOne(obj) ==
    IF IsDict(obj) THEN obj
    ELSE LET r == JsonLoads(obj.s)
         IN  IF r.exc = "none" THEN r.val
             ELSE IF Contains(obj.s, "=") THEN _split_kv(obj.s)
             ELSE PyDict(<<<<PyStr("_bad_object"), obj>>>>)

\* Wryte._normalize_objects, for objects that are dicts or strs.
_normalize_objects(objects) == [i \in DOMAIN objects |-> NormalizeOne(objects[i])]

\* The loop `for part in objects: log.update(part)` of Wryte._enrich.
RECURSIVE UpdateAll(_, _)
UpdateAll(log, parts) ==
    IF parts = <<>> THEN Ok(log)
    ELSE LET r == DictUpdate(log, parts[1])
         IN  IF r.exc # "none" THEN r ELSE UpdateAll(r.val, Tail(parts))

\* datetime.datetime.now().isoformat() at clock reading c.
_get_timestamp(c) == PyStr("2017-12-22T17:02:59.55092" \o ToString(c))

\* _enrich with the context objects merged after message, level and timestamp.
_enrich_objects_last(w, message, level, objects, c) ==
    UpdateAll(SetItems(w.log_base, <<<<PyStr("message"), message>>,
                                     <<PyStr("level"), PyStr(Upper(level))>>,
                                     <<PyStr("timestamp"), _get_timestamp(c)>>>>),
              _normalize_objects(objects))

\* Wryte._enrich of the facade w at clock reading c.
_enrich(w, message, level, objects, c) ==
    Only({IF r.exc # "none" THEN r
          ELSE Ok(SetItems(r.val, <<<<PyStr("message"), message>>,
                                    <<PyStr("level"), PyStr(Upper(level))>>,
                                    <<PyStr("timestamp"), _get_timestamp(c)>>>>))
          : r \in {UpdateAll(w.log_base, _normalize_objects(objects))}})

\* ------------------------------------------------------------ formatters
\* str(x) of Python; of a str inside a list or a dict the repr in single
\* quotes (exact for strings without quotes or backslashes).
RECURSIVE PyRepr(_)
RECURSIVE JoinRepr(_, _)
JoinRepr(xs, isDict) ==
    IF xs = <<>> THEN ""
    ELSE (IF isDict THEN PyRepr(xs[1][1]) \o ": " \o PyRepr(xs[1][2]) ELSE PyRepr(xs[1]))
         \o (IF Len(xs) > 1 THEN ", " ELSE "") \o JoinRepr(Tail(xs), isDict)

PyRepr(x) ==
    CASE x.t = "None" -> "None"
      [] x.t = "bool" -> IF x.v THEN "True" ELSE "False"
      [] x.t = "int" -> ToString(x.v)
      [] x.t = "str" -> "'" \o x.s \o "'"
      [] x.t = "list" -> "[" \o JoinRepr(x.items, FALSE) \o "]"
      [] OTHER -> "{" \o JoinRepr(x.items, TRUE) \o "}"

\* '{0}'.format(x)
PyFormat(x) == IF IsStr(x) THEN x.s ELSE PyRepr(x)

\* A JSON string literal: the quote and the backslash are escaped.
RECURSIVE JsonEscape(_)
JsonEscape(s) ==
    IF s = "" THEN ""
    ELSE (IF Ch(s, 1) = "\"" THEN "\\\"" ELSE IF Ch(s, 1) = "\\" THEN "\\\\" ELSE Ch(s, 1))
         \o JsonEscape(Slice(s, 2, Len(s)))

RECURSIVE Spaces(_)
Spaces(n) == IF n <= 0 THEN "" ELSE " " \o Spaces(n - 1)

\* A dict key as json.dumps writes it: str, int, bool and None keys become strings.
JsonKey(k) ==
    CASE k.t = "str" -> JsonEscape(k.s)
      [] k.t = "int" -> ToString(k.v)
      [] k.t = "bool" -> IF k.v THEN "true" ELSE "false"
      [] OTHER -> "null"

\* json.dumps(x, indent=indent) at nesting depth `depth`; indent 0 stands
\* for indent=None (one line, ', ' and ': ' between the items).
RECURSIVE JsonDumpsAt(_, _, _)
RECURSIVE JsonItems(_, _, _, _)
JsonItems(xs, isDict, indent, depth) ==
    IF xs = <<>> THEN ""
    ELSE (IF indent > 0 THEN "\n" \o Spaces(indent * depth) ELSE "")
         \o (IF isDict
             THEN "\"" \o JsonKey(xs[1][1]) \o "\": " \o JsonDumpsAt(xs[1][2], indent, depth)
             ELSE JsonDumpsAt(xs[1], indent, depth))
         \o (IF Len(xs) > 1 THEN (IF indent > 0 THEN "," ELSE ", ") ELSE "")
         \o JsonItems(Tail(xs), isDict, indent, depth)

JsonDumpsAt(x, indent, depth) ==
    CASE x.t = "None" -> "null"
      [] x.t = "bool" -> IF x.v THEN "true" ELSE "false"
      [] x.t = "int" -> ToString(x.v)
      [] x.t = "str" -> "\"" \o JsonEscape(x.s) \o "\""
      [] OTHER ->
           LET open == IF x.t = "list" THEN "[" ELSE "{"
               close == IF x.t = "list" THEN "]" ELSE "}"
           IN  IF x.items = <<>> THEN open \o close
               ELSE open \o JsonItems(x.items, x.t = "dict", indent, depth + 1)
                    \o (IF indent > 0 THEN "\n" \o Spaces(indent * depth) ELSE "") \o close

JsonDumps(x, indent) == JsonDumpsAt(x, indent, 0)

\* JsonFormatter.format
JsonFormatter_format(fmt, record) == Ok(JsonDumps(record, IF Truthy(fmt.pretty) THEN 4 ELSE 0))

\* colorama's escape sequences, the ESC character written ^[.
Fore_CYAN == "^[[36m"
Fore_GREEN == "^[[32m"
Fore_YELLOW == "^[[33m"
Fore_RED == "^[[31m"
Fore_MAGENTA == "^[[35m"
Style_BRIGHT == "^[[1m"
Style_RESET_ALL == "^[[0m"

\* ConsoleFormatter._get_level_color: mapping.get(level.lower()).
_get_level_color(level) ==
    LET l == Lower(level)
    IN  CASE l = "debug" -> PyStr(Fore_CYAN)
          [] l = "info" -> PyStr(Fore_GREEN)
          [] l \in {"warning", "warn"} -> PyStr(Fore_YELLOW)
          [] l = "error" -> PyStr(Fore_RED)
          [] l = "critical" -> PyStr(Style_BRIGHT \o Fore_RED)
          [] OTHER -> PyNone

\* record.get(k)
GetOrNone(d, k) == IF HasKey(d, k) THEN Get(d, k) ELSE PyNone

\* The lines ConsoleFormatter.format appends for the extra fields.
RECURSIVE KeyValueLines(_)
KeyValueLines(kvs) ==
    IF kvs = <<>> THEN ""
    ELSE "\n  " \o PyFormat(kvs[1][1]) \o "=" \o PyFormat(kvs[1][2]) \o KeyValueLines(Tail(kvs))

RECURSIVE PopAll(_, _)
PopAll(d, ks) == IF ks = <<>> THEN d ELSE PopAll(Pop(d, PyStr(Head(ks))), Tail(ks))

ConsoleFields == <<"name", "timestamp", "level", "message", "hostname", "pid">>

\* The fields ConsoleFormatter.format leaves after its pops: the extras.
ConsoleExtras(record) == PopAll(record, ConsoleFields)

\* The first line ConsoleFormatter.format writes, coloured or plain.
ConsoleHead(fmt, record, colorama) ==
    LET name == GetOrNone(record, PyStr("name"))
        timestamp == GetOrNone(record, PyStr("timestamp"))
        level == GetOrNone(record, PyStr("level"))
        message == GetOrNone(record, PyStr("message"))
    IN  IF colorama /\ fmt.color
        THEN Fore_GREEN \o timestamp.s \o Style_RESET_ALL \o " - "
             \o Fore_MAGENTA \o name.s \o Style_RESET_ALL \o " - "
             \o _get_level_color(level.s).s \o level.s \o Style_RESET_ALL \o " - "
             \o PyFormat(message)
        ELSE PyFormat(timestamp) \o " - " \o PyFormat(name) \o " - "
             \o PyFormat(level) \o " - " \o PyFormat(message)

\* ConsoleFormatter.format, given the module's COLORAMA flag: a pop of a
\* missing field is a KeyError, a colour code added to a value that is no
\* str a TypeError.
ConsoleFormatter_format(fmt, record, colorama) ==
    LET name == GetOrNone(record, PyStr("name"))
        timestamp == GetOrNone(record, PyStr("timestamp"))
        level == GetOrNone(record, PyStr("level"))
        colored == colorama /\ fmt.color
        extras == ConsoleExtras(record)
        head == ConsoleHead(fmt, record, colorama)
    IN  IF \E i \in DOMAIN ConsoleFields : ~HasKey(record, PyStr(ConsoleFields[i]))
        THEN Raise("KeyError")
        ELSE IF colored /\ ~IsStr(level) THEN Raise("AttributeError")
        ELSE IF colored /\ _get_level_color(level.s) = PyNone THEN Raise("TypeError")
        ELSE IF colored /\ (~IsStr(timestamp) \/ ~IsStr(name)) THEN Raise("TypeError")
        ELSE IF Truthy(fmt.pretty) THEN Ok(head \o KeyValueLines(extras.items))
        ELSE IF extras.items # <<>> THEN Ok(head \o "\n" \o JsonDumps(extras, 4))
        ELSE Ok(head)

\* ------------------------------------------------------------ state
VARIABLES
    COLORAMA,   \* the module's flag: colorama was imported
    registry,   \* logging's process-wide loggers: name -> [level, handlers]
    handlers,   \* the logging.Handler objects, by identity: [name, formatter]
    requested,  \* history: the level each handler was last added with
    wryters,    \* the Wryte instances constructed, oldest first
    clock,      \* the reading of the wall clock
    last        \* the last call made and its outcome

vars == <<COLORAMA, registry, handlers, requested, wryters, clock, last>>

\* ------------------------------------------------------------ constants of the program
LEVEL_CONVERSION ==
    [debug |-> 10, info |-> 20, warning |-> 30, warn |-> 30, error |-> 40, critical |-> 50]

LevelNames == DOMAIN LEVEL_CONVERSION

\* logging.NOTSET, and logging.WARNING, the level of the root logger.
NOTSET == 0
RootLevel == LEVEL_CONVERSION["warning"]

\* __name__ of the module, socket.gethostname() and os.getpid().
ModuleName == "wryte"
GetHostName == "localhost"
GetPid == 4242

\* ------------------------------------------------------------ inputs
Names == {PyNone, PyStr("svc")}
Hostnames == {PyNone, PyStr("h1")}
Pretties == {PyNone, PyBool(TRUE), PyBool(FALSE)}
LevelInputs == LevelNames \cup {"INFO", "bogus"}
Messages == {PyStr("m")}

\* Context objects, dicts and strs, of the calls of _normalize_objects and _enrich.
DictObjects ==
    { DictOf(<<<<"x", PyInt(1)>>>>),
      DictOf(<<<<"x", PyInt(2)>>, <<"level", PyStr("spoofed")>>>>),
      DictOf(<<<<"name", PyInt(7)>>, <<"timestamp", PyNone>>>>) }

StrObjects ==
    { PyStr("42"), PyStr("[1]"), PyStr("null"), PyStr("[\"xy\"]"), PyStr("hello"),
      PyStr("x=3"), PyStr("a=b=c"), PyStr("{\"x\": 4, \"pid\": 1}") }

Objects == DictObjects \cup StrObjects
EnrichLevels == {"info", "warn", "Error", "bogus"}

\* Context objects of the logging calls.
LogObjects ==
    { DictOf(<<<<"x", PyInt(1)>>>>), PyStr("42"), PyStr("env=prod"), PyStr("hello") }

\* The arguments of add_handler and of the constructions around it.
HandlerNameInputs == {PyNone, PyStr("a")}
FrameNameInputs == {PyStr("a"), PyStr("b")}
FormatterInputs == {"json", "xml"}
HandlerLevelInputs == {"debug", "INFO", "bogus"}

SeqsUpTo(S, n) == UNION {[1..k -> S] : k \in 0..n}

\* ------------------------------------------------------------ logging
\* logging.getLogger(name): the root logger for a name that is not truthy.
LoggerKey(name) == IF Truthy(name) THEN name.s ELSE "root"
LoggerKeys == {LoggerKey(n) : n \in Names}
\* The loggers, the root first.
LoggerOrder == <<"root", "svc">>

NoFormatter == [kind |-> "none", pretty |-> PyNone, color |-> FALSE]
\* logging.StreamHandler(sys.stdout), or any handler fresh from its constructor.
NewHandler == [name |-> PyNone, formatter |-> NoFormatter]

\* Logger.getEffectiveLevel: the logger's level, or the root's when NOTSET.
EffectiveLevel(reg, key) ==
    IF reg[key].level # NOTSET THEN reg[key].level ELSE reg["root"].level

\* Logger.callHandlers: the logger's handlers, then (propagate) the root's.
HandlersCalled(reg, key) ==
    IF key = "root" THEN reg[key].handlers ELSE reg[key].handlers \o reg["root"].handlers

\* list.remove(x): the first occurrence goes.
RECURSIVE ListRemove(_, _)
ListRemove(xs, x) ==
    IF xs = <<>> THEN <<>>
    ELSE IF Head(xs) = x THEN Tail(xs)
    ELSE <<Head(xs)>> \o ListRemove(Tail(xs), x)

\* Logger.addHandler: a handler already in the list is not added again.
Logger_addHandler(hs, h) == IF h \in Range(hs) THEN hs ELSE Append(hs, h)

\* Logger.removeHandler
Logger_removeHandler(hs, h) == IF h \in Range(hs) THEN ListRemove(hs, h) ELSE hs

\* Handler.format of handler object hobj on a record.
Handler_format(hobj, record, colorama) ==
    IF hobj.formatter.kind = "json" THEN JsonFormatter_format(hobj.formatter, record)
    ELSE ConsoleFormatter_format(hobj.formatter, record, colorama)

\* Logger.log(severity, record) on the logger `key`: what was handed to the
\* logger, and what each handler called wrote (StreamHandler.emit hands an
\* exception of format to handleError and writes nothing).
Logger_log(reg, hobjs, colorama, key, severity, record) ==
    [forwarded |-> <<[logger |-> key, severity |-> severity, record |-> record]>>,
     emitted |-> IF severity >= EffectiveLevel(reg, key)
                 THEN [i \in DOMAIN HandlersCalled(reg, key) |->
                         [handler |-> HandlersCalled(reg, key)[i],
                          out |-> Handler_format(hobjs[HandlersCalled(reg, key)[i]], record, colorama)]]
                 ELSE <<>>]

\* ------------------------------------------------------------ Wryte
\* Wryte._get_base
_get_base(name, hostname) ==
    DictOf(<<<<"name", name>>,
             <<"hostname", PyOr(hostname, PyStr(GetHostName))>>,
             <<"pid", PyInt(GetPid)>>>>)

\* The attributes Wryte.__init__ sets before it adds a handler.
NewWryte(name, hostname, pretty, color) ==
    [name |-> PyOr(name, PyStr(ModuleName)),
     pretty |-> pretty,
     log_base |-> _get_base(name, hostname),
     logger |-> LoggerKey(name),
     color |-> color]

\* str(uuid.uuid4()): a name no handler object bears.
uuid4(hobjs) ==
    LET used == {hobjs[i].name : i \in DOMAIN hobjs}
        k == CHOOSE n \in 1..(MaxHandlers + 1) :
                 /\ PyStr("uuid-" \o ToString(n)) \notin used
                 /\ \A m \in 1..(n - 1) : PyStr("uuid-" \o ToString(m)) \in used
    IN  PyStr("uuid-" \o ToString(k))

\* What a call leaves behind: the exception raised and the value returned,
\* and the loggers, the handler objects and the levels requested after it.
Outcome(exc, ret, reg, hobjs, req) ==
    [exc |-> exc, ret |-> ret, registry |-> reg, handlers |-> hobjs, requested |-> req]

\* Wryte.add_handler of w for the handler object h.
add_handler(w, reg, hobjs, req, colorama, h, name, formatter, level) ==
    LET lvl == Lower(level)
        nm == IF Truthy(name) THEN name ELSE uuid4(hobjs)
        fmt == IF formatter = "json"
               THEN [kind |-> "json", pretty |-> PyOr(w.pretty, PyBool(FALSE)), color |-> FALSE]
               ELSE [kind |-> "console", pretty |-> PyOr(w.pretty, PyBool(TRUE)), color |-> w.color]
    IN  IF lvl \notin LevelNames THEN Outcome("WryteError", PyNone, reg, hobjs, req)
        ELSE IF formatter \notin {"console", "json"}
        THEN Outcome("AssertionError", PyNone, reg, hobjs, req)
        ELSE IF formatter = "console" /\ ~colorama
        THEN Outcome("NameError", PyNone, reg, hobjs, req)
        ELSE Outcome("none", nm,
                     [reg EXCEPT ![w.logger] =
                         [level |-> LEVEL_CONVERSION[lvl],
                          handlers |-> Logger_addHandler(@.handlers, h)]],
                     [hobjs EXCEPT ![h] = [name |-> nm, formatter |-> fmt]],
                     [req EXCEPT ![h] = LEVEL_CONVERSION[lvl]])

\* The handler objects some logger holds.
Registered(reg) == UNION {Range(reg[k].handlers) : k \in DOMAIN reg}

\* The handler objects the loggers hold, each once, in the order in which
\* the lists of the loggers (the root's first) come to them.
RECURSIVE Distinct(_, _)
Distinct(xs, seen) ==
    IF xs = <<>> THEN <<>>
    ELSE IF Head(xs) \in seen THEN Distinct(Tail(xs), seen)
    ELSE <<Head(xs)>> \o Distinct(Tail(xs), seen \cup {Head(xs)})

RECURSIVE Concat(_)
Concat(xss) == IF xss = <<>> THEN <<>> ELSE Head(xss) \o Concat(Tail(xss))

HeldInOrder(reg) == Distinct(Concat([i \in DOMAIN LoggerOrder |-> reg[LoggerOrder[i]].handlers]), {})

\* The identity of a handler object carries no meaning but "the same object
\* or another": after a removal the objects still held are renumbered in
\* the order HeldInOrder. A handler object no logger holds is as good as one
\* fresh from its constructor (add_handler overwrites its name and its
\* formatter), and is kept in that state.
PlaceIn(ord, h) == CHOOSE p \in DOMAIN ord : ord[p] = h
Renumber(reg, hobjs, req) ==
    LET ord == HeldInOrder(reg)
    IN  [registry |-> [k \in DOMAIN reg |->
                         [level |-> reg[k].level,
                          handlers |-> [i \in DOMAIN reg[k].handlers |->
                                          PlaceIn(ord, reg[k].handlers[i])]]],
         handlers |-> [p \in DOMAIN hobjs |-> IF p <= Len(ord) THEN hobjs[ord[p]] ELSE NewHandler],
         requested |-> [p \in DOMAIN req |-> IF p <= Len(ord) THEN req[ord[p]] ELSE NOTSET]]

\* The identity of a handler object created now: one no logger holds.
FreshHandler(reg) == CHOOSE h \in 1..MaxHandlers : h \notin Registered(reg) /\ \A g \in 1..(h - 1) : g \in Registered(reg)
HasFreshHandler(reg) == \E h \in 1..MaxHandlers : h \notin Registered(reg)

\* Wryte.list_handlers
list_handlers(w, reg, hobjs) ==
    [i \in DOMAIN reg[w.logger].handlers |-> hobjs[reg[w.logger].handlers[i]].name]

\* The loop of Wryte.remove_handler: a list iterator at index i over the
\* list hs that the body shortens under it.
RECURSIVE RemoveLoop(_, _, _, _)
RemoveLoop(hs, i, hobjs, name) ==
    IF i > Len(hs) THEN hs
    ELSE IF hobjs[hs[i]].name = name
    THEN RemoveLoop(Logger_removeHandler(hs, hs[i]), i + 1, hobjs, name)
    ELSE RemoveLoop(hs, i + 1, hobjs, name)

\* remove_handler taking the first handler of the list off when a handler
\* bears the name.
remove_handler_first(w, reg, hobjs, name) ==
    IF \E i \in DOMAIN reg[w.logger].handlers : hobjs[reg[w.logger].handlers[i]].name = name
    THEN [reg EXCEPT ![w.logger].handlers = Tail(@)]
    ELSE reg

\* Wryte.remove_handler
remove_handler(w, reg, hobjs, name) ==
    [reg EXCEPT ![w.logger].handlers = RemoveLoop(@, 1, hobjs, name)]

\* The outcome of a logging call: the exception raised, the records handed
\* to the underlying logger and what the handlers wrote.
LogOutcome(exc, forwarded, emitted) == [exc |-> exc, forwarded |-> forwarded, emitted |-> emitted]

\* Wryte.log
log(w, reg, hobjs, colorama, c, level, message, objects) ==
    Only({IF obj.exc # "none" THEN LogOutcome(obj.exc, <<>>, <<>>)
          ELSE IF level \notin LevelNames THEN LogOutcome("KeyError", <<>>, <<>>)
          ELSE Only({LogOutcome("none", out.forwarded, out.emitted)
                     : out \in {Logger_log(reg, hobjs, colorama, w.logger,
                                           LEVEL_CONVERSION[level], obj.val)}})
          : obj \in {_enrich(w, message, level, objects, c)}})

\* The level each convenience method enriches with, and the severity of the
\* Logger method it calls.
Methods == {"debug", "info", "warn", "warning", "error", "critical"}
MethodLevel(m) == IF m = "warn" THEN "warning" ELSE m
MethodSeverity(m) ==
    CASE m = "debug" -> 10
      [] m = "info" -> 20
      [] m \in {"warn", "warning"} -> 30
      [] m = "error" -> 40
      [] OTHER -> 50

\* Wryte.debug, info, warn, warning, error and critical.
LevelMethod(w, reg, hobjs, colorama, c, m, message, objects) ==
    Only({IF obj.exc # "none" THEN LogOutcome(obj.exc, <<>>, <<>>)
          ELSE Only({LogOutcome("none", out.forwarded, out.emitted)
                     : out \in {Logger_log(reg, hobjs, colorama, w.logger,
                                           MethodSeverity(m), obj.val)}})
          : obj \in {_enrich(w, message, MethodLevel(m), objects, c)}})

\* ------------------------------------------------------------ the calls
\* The record of a call: the operation, the Wryte it was made on (its place
\* in wryters, 0 for a constructor that raised), the arguments, the exception
\* raised, the value returned, and for a logging call what was handed to the
\* logger and what the handlers wrote.
Call(op, w, args, exc, ret, forwarded, emitted) ==
    [op |-> op, w |-> w, args |-> args, exc |-> exc, ret |-> ret,
     forwarded |-> forwarded, emitted |-> emitted]

NoCall == Call("none", 0, <<>>, "none", PyNone, <<>>, <<>>)

\* logging's loggers when the process starts.
NewRegistry ==
    [k \in LoggerKeys |-> [level |-> IF k = "root" THEN RootLevel ELSE NOTSET, handlers |-> <<>>]]

\* The handler objects, none of them in use, and the levels requested for them.
NoHandlers == [h \in 1..MaxHandlers |-> NewHandler]
NoneRequested == [h \in 1..MaxHandlers |-> NOTSET]

CtorArgs(name, hostname, level, pretty, bare, jsonify, color) ==
    [name |-> name, hostname |-> hostname, level |-> level, pretty |-> pretty,
     bare |-> bare, jsonify |-> jsonify, color |-> color]

\* Wryte.__init__ with the arguments a: the outcome of the default handler's
\* add_handler, or for a bare instance no change at all.
__init__(reg, hobjs, req, colorama, a) ==
    IF a.bare THEN Outcome("none", PyNone, reg, hobjs, req)
    ELSE add_handler(NewWryte(a.name, a.hostname, a.pretty, a.color), reg,
                     hobjs, req, colorama, FreshHandler(reg),
                     PyStr(IF a.jsonify THEN "_json" ELSE "_console"),
                     IF a.jsonify THEN "json" ELSE "console", a.level)

\* Wryte(**a): a constructor that raises leaves no instance (and its
\* StreamHandler unreferenced).
Construct(a) ==
    /\ Len(wryters) < MaxWryters
    /\ a.bare \/ HasFreshHandler(registry)
    /\ LET r == __init__(registry, handlers, requested, COLORAMA, a)
       IN  IF r.exc = "none"
           THEN /\ wryters' = Append(wryters, NewWryte(a.name, a.hostname, a.pretty, a.color))
                /\ registry' = r.registry
                /\ handlers' = r.handlers
                /\ requested' = r.requested
                /\ last' = Call("Wryte", Len(wryters) + 1, a, "none", PyNone, <<>>, <<>>)
           ELSE /\ last' = Call("Wryte", 0, a, r.exc, PyNone, <<>>, <<>>)
                /\ UNCHANGED <<registry, handlers, requested, wryters>>
    /\ UNCHANGED <<COLORAMA, clock>>

\* wryters[i].add_handler(handler, name, formatter, level), the handler one
\* that some logger holds already or a new one.
AddHandler(i, h, name, formatter, level) ==
    /\ i \in DOMAIN wryters
    /\ h \in Registered(registry) \/ (HasFreshHandler(registry) /\ h = FreshHandler(registry))
    /\ LET args == [handler |-> h, name |-> name, formatter |-> formatter, level |-> level]
           r == add_handler(wryters[i], registry, handlers, requested, COLORAMA, h, name,
                            formatter, level)
       IN  IF r.exc = "none"
           THEN /\ registry' = r.registry
                /\ handlers' = r.handlers
                /\ requested' = r.requested
                /\ last' = Call("add_handler", i, args, "none", r.ret, <<>>, <<>>)
           ELSE /\ last' = Call("add_handler", i, args, r.exc, PyNone, <<>>, <<>>)
                /\ UNCHANGED <<registry, handlers, requested>>
    /\ UNCHANGED <<COLORAMA, wryters, clock>>

\* wryters[i].remove_handler(name); the record of the call keeps, besides
\* the argument, what list_handlers() returned before it.
RemoveHandler(i, name) ==
    /\ i \in DOMAIN wryters
    /\ LET r == Renumber(remove_handler(wryters[i], registry, handlers, name), handlers, requested)
       IN  /\ registry' = r.registry
           /\ handlers' = r.handlers
           /\ requested' = r.requested
    /\ last' = Call("remove_handler", i,
                    [name |-> name, listed |-> list_handlers(wryters[i], registry, handlers)],
                    "none", PyNone, <<>>, <<>>)
    /\ UNCHANGED <<COLORAMA, wryters, clock>>

\* wryters[i]._normalize_objects(objects)
NormalizeObjects(i, objects) ==
    /\ i \in DOMAIN wryters
    /\ last' = Call("_normalize_objects", i, [objects |-> objects], "none",
                    PyList(_normalize_objects(objects)), <<>>, <<>>)
    /\ UNCHANGED <<COLORAMA, registry, handlers, requested, wryters, clock>>

\* wryters[i]._enrich(message, level, objects)
Enrich(i, level, message, objects) ==
    /\ i \in DOMAIN wryters
    /\ \E r \in {_enrich(wryters[i], message, level, objects, clock)} :
           last' = Call("_enrich", i, [level |-> level, message |-> message, objects |-> objects],
                        r.exc, r.val, <<>>, <<>>)
    /\ UNCHANGED <<COLORAMA, registry, handlers, requested, wryters, clock>>

\* wryters[i].log(level, message, *objects)
Log(i, level, message, objects) ==
    /\ i \in DOMAIN wryters
    /\ \E r \in {log(wryters[i], registry, handlers, COLORAMA, clock, level, message, objects)} :
           last' = Call("log", i, [level |-> level, message |-> message, objects |-> objects],
                        r.exc, PyNone, r.forwarded, r.emitted)
    /\ UNCHANGED <<COLORAMA, registry, handlers, requested, wryters, clock>>

\* wryters[i].debug / info / warn / warning / error / critical (message, *objects)
CallLevelMethod(i, m, message, objects) ==
    /\ i \in DOMAIN wryters
    /\ \E r \in {LevelMethod(wryters[i], registry, handlers, COLORAMA, clock, m, message,
                              objects)} :
           last' = Call(m, i, [level |-> m, message |-> message, objects |-> objects],
                        r.exc, PyNone, r.forwarded, r.emitted)
    /\ UNCHANGED <<COLORAMA, registry, handlers, requested, wryters, clock>>

\* The wall clock moves on.
Tick ==
    /\ clock < MaxClock
    /\ clock' = clock + 1
    /\ UNCHANGED <<COLORAMA, registry, handlers, requested, wryters, last>>

\* ------------------------------------------------------------ specifications
\* A process in which no Wryte has been constructed yet.
Init ==
    /\ COLORAMA \in BOOLEAN
    /\ registry = NewRegistry
    /\ handlers = NoHandlers
    /\ requested = NoneRequested
    /\ wryters = <<>>
    /\ clock = 0
    /\ last = NoCall

\* A process right after its first Wryte was constructed with the arguments a.
InitAfter(a) ==
    /\ COLORAMA \in BOOLEAN
    /\ LET r == __init__(NewRegistry, NoHandlers, NoneRequested, COLORAMA, a)
       IN  /\ r.exc = "none"
           /\ registry = r.registry
           /\ handlers = r.handlers
           /\ requested = r.requested
    /\ wryters = <<NewWryte(a.name, a.hostname, a.pretty, a.color)>>
    /\ clock = 0
    /\ last = NoCall

\* The names remove_handler is called with: those the handler objects bear
\* and one that none bears.
RemoveNames == ({handlers[h].name : h \in DOMAIN handlers} \ {PyNone}) \cup {PyStr("absent")}

\* The caller has taken the outcome of the last call.
Return ==
    /\ last # NoCall
    /\ last' = NoCall
    /\ UNCHANGED <<COLORAMA, registry, handlers, requested, wryters, clock>>

\* Handler bookkeeping on one named logger: constructions, add_handler and
\* remove_handler, one call after the other.
NextHandlers ==
    \/ /\ last = NoCall
       /\ \E level \in HandlerLevelInputs, bare \in BOOLEAN, jsonify \in BOOLEAN :
             Construct(CtorArgs(PyStr("svc"), PyNone, level, PyNone, bare, jsonify, TRUE))
    \/ /\ last = NoCall
       /\ \E i \in 1..MaxWryters, h \in 1..MaxHandlers, name \in HandlerNameInputs,
             formatter \in FormatterInputs, level \in HandlerLevelInputs :
             AddHandler(i, h, name, formatter, level)
    \/ /\ last = NoCall
       /\ \E i \in 1..MaxWryters, name \in RemoveNames : RemoveHandler(i, name)
    \/ Return

SpecHandlers == Init /\ [][NextHandlers]_vars

\* The same calls with explicit handler names and one level only.
NextFrame ==
    \/ /\ last = NoCall
       /\ \E bare \in BOOLEAN, jsonify \in BOOLEAN :
             Construct(CtorArgs(PyStr("svc"), PyNone, "info", PyNone, bare, jsonify, TRUE))
    \/ /\ last = NoCall
       /\ \E i \in 1..MaxWryters, h \in 1..MaxHandlers, name \in FrameNameInputs :
             AddHandler(i, h, name, "json", "info")
    \/ /\ last = NoCall
       /\ \E i \in 1..MaxWryters, name \in RemoveNames : RemoveHandler(i, name)
    \/ Return

SpecFrame == Init /\ [][NextFrame]_vars

\* The record pipeline of one bare Wryte: _normalize_objects and _enrich.
InitEnrich ==
    \E name \in Names, hostname \in Hostnames :
        InitAfter(CtorArgs(name, hostname, "info", PyNone, TRUE, FALSE, TRUE))

\* The calls change no variable but `last`, so the calls after the first one
\* reach no state the first one does not: one call is made per behaviour.
NextEnrich ==
    \/ /\ last = NoCall
       /\ \E objects \in SeqsUpTo(Objects, MaxObjects) : NormalizeObjects(1, objects)
    \/ /\ last = NoCall
       /\ \E level \in EnrichLevels, message \in Messages,
             objects \in SeqsUpTo(Objects, MaxObjects) :
             Enrich(1, level, message, objects)
    \/ Tick

SpecEnrich == InitEnrich /\ [][NextEnrich]_vars

\* The logging calls of one Wryte, constructed with any arguments.
InitLog ==
    \E name \in Names, level \in LevelInputs, pretty \in Pretties,
       bare \in BOOLEAN, jsonify \in BOOLEAN, color \in BOOLEAN :
        InitAfter(CtorArgs(name, PyNone, level, pretty, bare, jsonify, color))

\* As in NextEnrich, one logging call is made per behaviour.
NextLog ==
    \/ /\ last = NoCall
       /\ \E level \in LevelInputs, message \in Messages,
             objects \in SeqsUpTo(LogObjects, MaxLogObjects) :
             Log(1, level, message, objects)
    \/ /\ last = NoCall
       /\ \E m \in Methods, message \in Messages,
             objects \in SeqsUpTo(LogObjects, MaxLogObjects) :
             CallLevelMethod(1, m, message, objects)
    \/ Tick

SpecLog == InitLog /\ [][NextLog]_vars

\* ------------------------------------------------------------ properties
ThreeKeys == {PyStr("message"), PyStr("level"), PyStr("timestamp")}

\* The handlers of a logger, by value.
Entries(reg, hobjs, key) == [i \in DOMAIN reg[key].handlers |-> hobjs[reg[key].handlers[i]]]

RECURSIVE WithoutName(_, _)
WithoutName(entries, name) ==
    IF entries = <<>> THEN <<>>
    ELSE IF Head(entries).name = name THEN WithoutName(Tail(entries), name)
    ELSE <<Head(entries)>> \o WithoutName(Tail(entries), name)

CountOf(xs, x) == Cardinality({i \in DOMAIN xs : xs[i] = x})
MinOf(S) == CHOOSE x \in S : \A y \in S : x <= y

\* C1: _normalize_objects never raises and returns one mapping per item, for
\* every sequence of dicts and strs.
C1_NormalizeReturnsMappings ==
    last.op = "_normalize_objects" =>
        /\ last.exc = "none"
        /\ Len(last.ret.items) = Len(last.args.objects)
        /\ \A i \in DOMAIN last.ret.items : IsDict(last.ret.items[i])

\* The level string _enrich is to write for each level it is called with.
ExpectedLevel == [info |-> "INFO", warn |-> "WARN", Error |-> "ERROR", bogus |-> "BOGUS"]

\* C2: when the context objects normalize to mappings, _enrich returns a
\* record whose keys are those of the identity base, of the objects and
\* message, level, timestamp, and in which message, level and timestamp hold
\* the message, the upper-cased level and a reading of the clock whatever the
\* objects say, every other key holds the value of the last object that has
\* it, and failing that the value of the identity base.
C2_EnrichPrecedence ==
    LET base == wryters[last.w].log_base
        parts == _normalize_objects(last.args.objects)
        rec == last.ret
        lastWith(k) == CHOOSE i \in DOMAIN parts :
                           HasKey(parts[i], k) /\ \A j \in DOMAIN parts : j > i => ~HasKey(parts[j], k)
    IN  (last.op = "_enrich" /\ \A i \in DOMAIN parts : IsDict(parts[i])) =>
            /\ last.exc = "none"
            /\ IsDict(rec)
            /\ Keys(rec) = Keys(base) \cup UNION {Keys(parts[i]) : i \in DOMAIN parts} \cup ThreeKeys
            /\ Len(rec.items) = Cardinality(Keys(rec))
            /\ \A k \in Keys(rec) :
                   CASE k = PyStr("message") -> Get(rec, k) = last.args.message
                     [] k = PyStr("level") -> Get(rec, k) = PyStr(ExpectedLevel[last.args.level])
                     [] k = PyStr("timestamp") ->
                            Get(rec, k) \in {_get_timestamp(c) : c \in 0..clock}
                     [] OTHER -> Get(rec, k) = IF \E i \in DOMAIN parts : HasKey(parts[i], k)
                                               THEN Get(parts[lastWith(k)], k)
                                               ELSE Get(base, k)

\* C2 witness: _enrich returned for two objects that both set x, to different
\* values, one of them setting level and another key of the identity base too.
C2_Witness ==
    /\ last.op = "_enrich"
    /\ last.exc = "none"
    /\ Len(last.args.objects) = 2
    /\ LET parts == _normalize_objects(last.args.objects)
       IN  /\ \A i \in DOMAIN parts : IsDict(parts[i]) /\ HasKey(parts[i], PyStr("x"))
           /\ Get(parts[1], PyStr("x")) # Get(parts[2], PyStr("x"))
           /\ HasKey(parts[1], PyStr("level"))
           /\ HasKey(parts[2], PyStr("pid"))
    /\ Get(last.ret, PyStr("level")) = PyStr("INFO")
    /\ Get(last.ret, PyStr("x")) = PyInt(4)
    /\ Get(last.ret, PyStr("pid")) = PyInt(1)

\* C3: a logging call with a valid level never raises, whatever its context
\* objects, and hands exactly one record to the underlying logger.
C3_LoggingNeverRaises ==
    (last.op \in Methods \/ (last.op = "log" /\ last.args.level \in LevelNames)) =>
        /\ last.exc = "none"
        /\ Len(last.forwarded) = 1

\* C4: when two handlers of the logger bear the same explicit name, one
\* remove_handler(name) leaves no handler of that name listed.
C4_RemoveHandlerRemovesBoth ==
    [][(/\ last'.op = "remove_handler"
        /\ last'.args.name \in HandlerNameInputs
        /\ CountOf(list_handlers(wryters[last'.w], registry, handlers), last'.args.name) = 2)
       => CountOf(list_handlers(wryters'[last'.w], registry', handlers'), last'.args.name) = 0]_vars

\* C5: while a logger has handlers, its level is the lowest of the levels
\* its handlers were added with.
C5_ThresholdIsLowestRequested ==
    \A k \in LoggerKeys :
        registry[k].handlers # <<>> =>
            registry[k].level = MinOf({requested[h] : h \in Range(registry[k].handlers)})

\* C6: right after a Wryte that is not bare was constructed, list_handlers()
\* returns one name, _json for jsonify and _console otherwise.
C6_ConstructLeavesOneHandler ==
    (last.op = "Wryte" /\ last.exc = "none" /\ ~last.args.bare) =>
        list_handlers(wryters[last.w], registry, handlers)
            = <<PyStr(IF last.args.jsonify THEN "_json" ELSE "_console")>>

\* C7: a level that is no severity name, whatever its case, makes add_handler
\* and log raise WryteError, and log hand no record to the logger.
C7_InvalidLevelIsWryteError ==
    (last.op \in {"log", "add_handler"} /\ Lower(last.args.level) \notin LevelNames) =>
        /\ last.exc = "WryteError"
        /\ last.forwarded = <<>>

\* C8: remove_handler(name) raises nothing, leaves the level of every logger and
\* the handlers of the other loggers alone, keeps the handlers of other names
\* in their order, and changes nothing at all when no handler bears the name.
C8_RemoveHandlerFrame ==
    [][last'.op = "remove_handler" =>
          LET key == wryters[last'.w].logger
              name == last'.args.name
              before == Entries(registry, handlers, key)
              after == Entries(registry', handlers', key)
          IN  /\ last'.exc = "none"
              /\ wryters' = wryters
              /\ \A k \in LoggerKeys : registry'[k].level = registry[k].level
              /\ \A k \in LoggerKeys \ {key} :
                     Entries(registry', handlers', k) = Entries(registry, handlers, k)
              /\ WithoutName(after, name) = WithoutName(before, name)
              /\ (\A i \in DOMAIN before : before[i].name # name) => after = before]_vars

\* C8 witness: remove_handler(name) was called with three handlers listed, one
\* of that name and after it two of two other names, which are the ones listed now.
C8_Witness ==
    /\ last.op = "remove_handler"
    /\ Len(last.args.listed) = 3
    /\ last.args.listed[1] = last.args.name
    /\ last.args.listed[2] # last.args.name
    /\ last.args.listed[3] \notin {last.args.name, last.args.listed[2]}
    /\ list_handlers(wryters[last.w], registry, handlers) = Tail(last.args.listed)

\* C9: a convenience method hands the logger the severity and, but for the
\* timestamp, the record that log hands it for the level of the method's
\* name; and log takes every spelling of a level that add_handler takes.
C9_MethodEquivalentToLog ==
    /\ (last.op \in Methods /\ last.exc = "none") =>
           LET r == log(wryters[last.w], registry, handlers, COLORAMA, clock, last.op,
                        last.args.message, last.args.objects)
           IN  /\ r.exc = "none"
               /\ r.forwarded[1].severity = last.forwarded[1].severity
               /\ Pop(r.forwarded[1].record, PyStr("timestamp"))
                      = Pop(last.forwarded[1].record, PyStr("timestamp"))
    /\ (last.op = "log" /\ Lower(last.args.level) \in LevelNames) => last.exc # "KeyError"

\* C10: what a console handler writes for a record with extra fields is the
\* first line and then, if the Wryte's pretty is true, one "  key=value"
\* line per extra field, and otherwise one JSON block of the extra fields.
C10_PrettySelectsConsoleStyle ==
    \A i \in DOMAIN last.emitted :
        LET e == last.emitted[i]
            fmt == handlers[e.handler].formatter
            rec == last.forwarded[1].record
            extras == ConsoleExtras(rec)
        IN  (fmt.kind = "console" /\ e.out.exc = "none" /\ extras.items # <<>>) =>
                e.out.val = ConsoleHead(fmt, rec, COLORAMA)
                            \o (IF Truthy(wryters[last.w].pretty)
                                THEN KeyValueLines(extras.items)
                                ELSE "\n" \o JsonDumps(extras, 4))
====
